---- MODULE Spec2Model ----
(***************************************************************************)
(* Model of the muthaker-bot channel scheduler (src/fazkerbot.py): the     *)
(* page-rotation function, the prayer-time gateway, the planning pass      *)
(* schedule_tasks, the job register and the content actions.               *)
(*                                                                         *)
(* Dates are proleptic Gregorian ordinals (date.toordinal()), a datetime   *)
(* is a record [date, min] with min the minute of the day.                 *)
(***************************************************************************)
EXTENDS Integers, Sequences, FiniteSets, TLC

----------------------------------------------------------------------------
(* Calendar arithmetic of datetime.date *)

IsLeap(y) == (y % 4 = 0) /\ ((y % 100 # 0) \/ (y % 400 = 0))

DaysBeforeYear(y) == (y - 1) * 365 + (y - 1) \div 4 - (y - 1) \div 100 + (y - 1) \div 400

DaysBeforeMonth(y, m) ==
    LET cum == <<0, 31, 59, 90, 120, 151, 181, 212, 243, 273, 304, 334>>
    IN  cum[m] + (IF m > 2 /\ IsLeap(y) THEN 1 ELSE 0)

\* datetime(y, m, d).date(), as its ordinal
MkDate(y, m, d) == DaysBeforeYear(y) + DaysBeforeMonth(y, m) + d

----------------------------------------------------------------------------
(* Bounds of the model *)

\* the page function is swept over anchor_date - PagesSpan .. anchor_date + PagesSpan
PagesSpan == 310

\* the legacy bot and the content actions post at most MaxMessages messages
MaxMessages == 4

\* the user sends at most MaxUpdates updates
MaxUpdates == 4

\* the clock runs from StartDate to StartDate + MaxDays
MaxDays == 1

----------------------------------------------------------------------------
VARIABLES
    now,                 \* the wall clock (Cairo): [date, min]
    started,             \* main() has started the scheduler and planned once
    last_scheduled_date, \* main loop: the date of the last planning pass (0: None)
    DAILY_TASKS,         \* the global task list of the last planning pass
    jobs,                \* the scheduler's job store: pending one-shot jobs
    posts,               \* the channel: every message posted, in order
    deletes,             \* every message id passed to bot.delete_message, in order
    next_message_id,     \* the id the messaging service gives the next message
    pass,                \* what the last planning pass saw (history)
    runs,                \* every job the scheduler ran or dropped, in order (history)
    last_run,            \* the last of them, with the scheduler's lateness (history)
    q_date,              \* pages spec: the date the function is asked for
    q_pages,             \* pages spec: result for q_date (<<>> before the call)
    q_next,              \* pages spec: result for q_date + 1 (<<>> before the call)
    q_period,            \* pages spec: result for q_date + 302 (<<>> before the call)
    q_today,             \* pages spec: result of get_next_quran_pages() on q_date
    g_target_date,       \* gateway spec: the date the timings are fetched for
    g_city,              \* gateway spec: the city provider's answer to the request
    g_coords,            \* gateway spec: the coordinates provider's answer
    g_pc,                \* gateway spec: the position of the call
    g_queried,           \* gateway spec: the sources consulted, in order (history)
    g_warned,            \* gateway spec: the sources whose date validation failed
    g_timings,           \* gateway spec: the timings returned (None before the return)
    message_ids,         \* legacy bot: the recorded reminder message ids (0: None)
    last_athkar,         \* legacy bot: what the last send_athkar call met and did (history)
    s_pc,                \* content-action spec: the position of the running action
    s_call,              \* content-action spec: the invocation and what it did (history)
    l_pc,                \* main-loop spec: the position of the main coroutine
    l_current_date,      \* main-loop spec: current_date of the loop iteration (0: unset)
    l_running,           \* main-loop spec: the schedule_tasks invocations in progress
    l_exception,         \* main-loop spec: the handlers that caught an exception (history)
    quran_page_number,   \* counter variant: the global page counter
    c_saved,             \* counter variant: the page number in the counter file
    c_last,              \* counter variant: what the last send_quran_pages did (history)
    n_pc,                \* legacy main: the position of the main coroutine
    u_conversation,      \* user side: the conversation state kept for the user
    u_log                \* user side: the updates processed, in order (history)

pagesVars == <<q_date, q_pages, q_next, q_period, q_today>>

botVars == <<now, started, last_scheduled_date, DAILY_TASKS, jobs, posts, deletes,
             next_message_id, pass, runs, last_run>>

gatewayVars == <<g_target_date, g_city, g_coords, g_pc, g_queried, g_warned, g_timings>>

legacyVars == <<message_ids, last_athkar>>

sendVars == <<s_pc, s_call>>

loopVars == <<l_pc, l_current_date, l_running, l_exception>>

counterVars == <<quran_page_number, c_saved, c_last>>

userVars == <<u_conversation, u_log>>

otherVars == <<counterVars, n_pc, userVars>>

sideVars == <<legacyVars, sendVars, loopVars, otherVars>>

vars == <<botVars, pagesVars, gatewayVars, sideVars>>

----------------------------------------------------------------------------
(* Page rotation: get_next_quran_pages_for_date *)

anchor_date == MkDate(2025, 5, 26)

anchor_page1 == 2

anchor_page2 == 3

total_pages == 604

RECURSIVE WrapWhile(_)
\* while page <= 0: page += total_pages
WrapWhile(page) == IF page <= 0 THEN WrapWhile(page + total_pages) ELSE page

\* faulty variant: the modulo without the -1/+1 shift (page 604 becomes 0)
wrap_mod(page) == page % total_pages

\* faulty variant: a page past the end restarts at 1 (the counter variant's rule)
wrap_reset(page) ==
    IF page <= 0 THEN WrapWhile(page)
    ELSE IF page > total_pages THEN 1
    ELSE page

\* faulty variant: the while loop adds total_pages once too often
wrap_overshoot(page) ==
    IF page <= 0 THEN WrapWhile(page) + total_pages
    ELSE IF page > total_pages THEN ((page - 1) % total_pages) + 1
    ELSE page

\* faulty variant: no handling of pages <= 0 (dates before the anchor)
wrap_nonneg(page) ==
    IF page > total_pages THEN ((page - 1) % total_pages) + 1 ELSE page

wrap(page) ==
    IF page <= 0 THEN WrapWhile(page)
    ELSE IF page > total_pages THEN ((page - 1) % total_pages) + 1
    ELSE page

\* faulty variant: the day count starts at 1 on the anchor date
pages_for_date_from_one(target_date) ==
    LET days_diff == target_date - anchor_date + 1
        page1 == anchor_page1 + days_diff * 2
        page2 == anchor_page2 + days_diff * 2
    IN  <<wrap(page1), wrap(page2)>>

get_next_quran_pages_for_date(target_date) ==
    LET days_diff == target_date - anchor_date
        page1 == anchor_page1 + days_diff * 2
        page2 == anchor_page2 + days_diff * 2
    IN  <<wrap(page1), wrap(page2)>>

\* faulty variant: the status log's copy kept the anchor of 2025-05-27
get_next_quran_pages_old_anchor(today) ==
    LET days_diff == today - (anchor_date + 1)
        page1 == anchor_page1 + days_diff * 2
        page2 == anchor_page2 + days_diff * 2
    IN  <<wrap(page1), wrap(page2)>>

\* get_next_quran_pages(), lines 258-292, with today = datetime.now().date():
\* its own anchor, pages and nested wrap
get_next_quran_pages(today) ==
    LET anchor == MkDate(2025, 5, 26)
        days_diff == today - anchor
        page1 == 2 + days_diff * 2
        page2 == 3 + days_diff * 2
        own_wrap(page) ==
            IF page <= 0 THEN WrapWhile(page)
            ELSE IF page > 604 THEN ((page - 1) % 604) + 1
            ELSE page
    IN  <<own_wrap(page1), own_wrap(page2)>>

----------------------------------------------------------------------------
(* Datetimes: [date |-> ordinal, min |-> minute of the day] *)

MinutesPerDay == 24 * 60

DT(date, min) == [date |-> date, min |-> min]

\* a <= b on datetimes
DTLeq(a, b) == a.date < b.date \/ (a.date = b.date /\ a.min <= b.min)

\* dt + timedelta(minutes=m)
AddMinutes(dt, m) ==
    LET total == dt.min + m
    IN  [date |-> dt.date + (total \div MinutesPerDay), min |-> total % MinutesPerDay]

\* (a - b).total_seconds() for datetimes
SecondsBetween(a, b) == ((a.date - b.date) * MinutesPerDay + (a.min - b.min)) * 60

----------------------------------------------------------------------------
(* Time strings, as sequences of characters, and their parsing in          *)
(* schedule_tasks.get_prayer_time                                          *)

HHMM(h1, h2, m1, m2) == <<h1, h2, ":", m1, m2>>

Digits == {"0", "1", "2", "3", "4", "5", "6", "7", "8", "9"}

DigitValue(c) ==
    CASE c = "0" -> 0 [] c = "1" -> 1 [] c = "2" -> 2 [] c = "3" -> 3 [] c = "4" -> 4
      [] c = "5" -> 5 [] c = "6" -> 6 [] c = "7" -> 7 [] c = "8" -> 8 [] c = "9" -> 9

RECURSIVE split(_, _)
\* time_str.split(sep)
split(str, sep) ==
    IF \A i \in 1..Len(str) : str[i] # sep
    THEN <<str>>
    ELSE LET k == CHOOSE i \in 1..Len(str) :
                      str[i] = sep /\ \A j \in 1..(i - 1) : str[j] # sep
         IN  <<SubSeq(str, 1, k - 1)>> \o split(SubSeq(str, k + 1, Len(str)), sep)

\* whether int(str) succeeds, for strings of digits, letters, blanks and brackets
IsInt(str) == Len(str) > 0 /\ \A i \in 1..Len(str) : str[i] \in Digits

RECURSIVE IntValue(_)
\* int(str) for a string of digits
IntValue(str) ==
    IF Len(str) = 0 THEN 0
    ELSE 10 * IntValue(SubSeq(str, 1, Len(str) - 1)) + DigitValue(str[Len(str)])

NoTime == [ok |-> FALSE, date |-> 0, min |-> 0]

\* get_prayer_time: the localized datetime of the prayer on target_date, or
\* None (ok = FALSE) on a missing key, a malformed string or a bad value
get_prayer_time(prayer, target_date, prayer_times_data) ==
    IF prayer \notin DOMAIN prayer_times_data THEN NoTime
    ELSE LET time_str == prayer_times_data[prayer]
             parts == split(time_str, ":")
         IN  IF Len(time_str) = 0 \/ Len(parts) # 2 THEN NoTime
             ELSE IF ~(IsInt(parts[1]) /\ IsInt(parts[2])) THEN NoTime
             ELSE LET hour == IntValue(parts[1])
                      minute == IntValue(parts[2])
                  IN  IF hour \notin 0..23 \/ minute \notin 0..59 THEN NoTime
                      ELSE [ok |-> TRUE, date |-> target_date, min |-> hour * 60 + minute]

----------------------------------------------------------------------------
(* Time-source gateway *)

FALLBACK_PRAYER_TIMES ==
    [Fajr    |-> HHMM("0", "4", "3", "0"),
     Dhuhr   |-> HHMM("1", "2", "0", "0"),
     Asr     |-> HHMM("1", "6", "3", "0"),
     Maghrib |-> HHMM("1", "9", "0", "0"),
     Isha    |-> HHMM("2", "0", "3", "0")]

\* None, for a timings map
NoTimings == [x \in {} |-> <<>>]

\* the timings a provider answers with on a good day
GoodTimings ==
    [Fajr    |-> HHMM("0", "3", "1", "2"),
     Dhuhr   |-> HHMM("1", "2", "5", "2"),
     Asr     |-> HHMM("1", "5", "0", "5"),
     Maghrib |-> HHMM("1", "9", "4", "8"),
     Isha    |-> HHMM("2", "1", "2", "0")]

\* the provider's answers the model draws from: an HTTP or transport failure,
\* a good answer, an answer without Asr, and an answer whose Asr carries a
\* zone suffix ("15:05 (EET)")
ProviderResponses ==
    { [status |-> 500, timings |-> NoTimings],
      [status |-> 200, timings |-> GoodTimings],
      [status |-> 200, timings |-> [p \in {"Fajr", "Dhuhr"} |-> GoodTimings[p]]],
      [status |-> 200, timings |->
          [GoodTimings EXCEPT !["Asr"] = GoodTimings["Asr"] \o <<" ", "(", "E", "E", "T", ")">>]] }

\* faulty variant: the presence of Fajr and Asr is not tested
try_city_api_any_keys(response) ==
    IF response.status # 200 THEN NoTimings
    ELSE response.timings

\* try_city_api: the timings of the response, or None
try_city_api(response) ==
    IF response.status # 200 THEN NoTimings
    ELSE IF DOMAIN response.timings = {} THEN NoTimings
    ELSE IF ~({"Fajr", "Asr"} \subseteq DOMAIN response.timings) THEN NoTimings
    ELSE response.timings

\* try_coordinates_api: the timings of the response, or None
try_coordinates_api(response) ==
    IF response.status # 200 THEN NoTimings
    ELSE IF DOMAIN response.timings = {} THEN NoTimings
    ELSE IF ~({"Fajr", "Asr"} \subseteq DOMAIN response.timings) THEN NoTimings
    ELSE response.timings

\* faulty variant: no static table, None when both providers fail
fetch_no_fallback(city, coords) ==
    IF DOMAIN try_city_api(city) # {} THEN try_city_api(city)
    ELSE try_coordinates_api(coords)

\* fetch_prayer_times_with_fallback, given the answers of the two providers
fetch_prayer_times_with_fallback(city, coords) ==
    IF DOMAIN try_city_api(city) # {} THEN try_city_api(city)
    ELSE IF DOMAIN try_coordinates_api(coords) # {} THEN try_coordinates_api(coords)
    ELSE FALLBACK_PRAYER_TIMES

fetch_prayer_times(city, coords) == fetch_prayer_times_with_fallback(city, coords)

\* the answers one fetch can meet, <<city, coords>>; the coordinates provider
\* is asked only when the city provider failed
ProviderAnswers ==
    {a \in ProviderResponses \X ProviderResponses :
        DOMAIN try_city_api(a[1]) = {} \/ a[2] = a[1]}

\* whether a fetch with these answers ends in the static table
BothProvidersFail(city, coords) ==
    DOMAIN try_city_api(city) = {} /\ DOMAIN try_coordinates_api(coords) = {}

\* the date part of a response: data.date.readable and
\* data.date.gregorian.date, as strings (empty: the field is missing)
DateInfo(readable, gregorian) == [readable |-> readable, gregorian |-> gregorian]

DDMMYYYY(d1, d2, m1, m2, y1, y2, y3, y4) == <<d1, d2, "-", m1, m2, "-", y1, y2, y3, y4>>

\* the date parts the providers answer with to a request for 24-05-2025: the
\* requested date, the day after, five days after, no date, and a date
\* written year first
ResponseDates ==
    { DateInfo(<<"2", "4", " ", "M", "a", "y">>, DDMMYYYY("2", "4", "0", "5", "2", "0", "2", "5")),
      DateInfo(<<"2", "5", " ", "M", "a", "y">>, DDMMYYYY("2", "5", "0", "5", "2", "0", "2", "5")),
      DateInfo(<<"2", "9", " ", "M", "a", "y">>, DDMMYYYY("2", "9", "0", "5", "2", "0", "2", "5")),
      DateInfo(<<>>, <<>>),
      DateInfo(<<"2", "4", " ", "M", "a", "y">>,
               <<"2", "0", "2", "5", "-", "0", "5", "-", "2", "4">>) }

\* the providers' answers with their date part
DatedResponses ==
    {[status |-> r.status, timings |-> r.timings, date |-> d] :
        r \in ProviderResponses, d \in ResponseDates}

\* no answer yet
NoResponse == [status |-> 0, timings |-> NoTimings, date |-> DateInfo(<<>>, <<>>)]

DaysInMonth(y, m) ==
    IF m = 12 THEN 31 ELSE DaysBeforeMonth(y, m + 1) - DaysBeforeMonth(y, m)

\* datetime.strptime(str, '%d-%m-%Y').date(), or ValueError (ok = FALSE)
strptime_dmy(str) ==
    LET parts == split(str, "-")
    IN  IF Len(parts) # 3 THEN [ok |-> FALSE, date |-> 0]
        ELSE IF ~(IsInt(parts[1]) /\ IsInt(parts[2]) /\ IsInt(parts[3]))
        THEN [ok |-> FALSE, date |-> 0]
        ELSE IF Len(parts[1]) > 2 \/ Len(parts[2]) > 2 \/ Len(parts[3]) # 4
        THEN [ok |-> FALSE, date |-> 0]
        ELSE LET d == IntValue(parts[1])
                 m == IntValue(parts[2])
                 y == IntValue(parts[3])
             IN  IF y < 1 \/ m \notin 1..12 THEN [ok |-> FALSE, date |-> 0]
                 ELSE IF d \notin 1..DaysInMonth(y, m) THEN [ok |-> FALSE, date |-> 0]
                 ELSE [ok |-> TRUE, date |-> MkDate(y, m, d)]

\* abs() of a day count
Abs(n) == IF n < 0 THEN -n ELSE n

\* validate_api_response(data, requested_date)
validate_api_response(data, requested_date) ==
    LET api_date_str == data.date.readable
        gregorian_date == data.date.gregorian
        api_date == strptime_dmy(gregorian_date)
    IN  IF Len(api_date_str) = 0 \/ Len(gregorian_date) = 0 THEN FALSE
        ELSE IF ~api_date.ok THEN FALSE
        ELSE IF api_date.date # requested_date
        THEN Abs(api_date.date - requested_date) <= 1
        ELSE TRUE

\* faulty variant: a source's answer is never taken as a success
truthy_never(timings) == FALSE

\* `if timings:` on the result of try_city_api or try_coordinates_api
truthy(timings) == DOMAIN timings # {}

----------------------------------------------------------------------------
(* Task planner: schedule_tasks *)

MorningTask(time) ==
    [type |-> "morning_athkar", time |-> time,
     description |-> [text |-> "Morning Athkar", pages |-> <<>>]]

EveningTask(time) ==
    [type |-> "evening_athkar", time |-> time,
     description |-> [text |-> "Evening Athkar", pages |-> <<>>]]

\* the description f'Quran Pages {pages[0]}-{pages[1]}'
QuranTask(time, pages) ==
    [type |-> "quran", time |-> time,
     description |-> [text |-> "Quran Pages", pages |-> pages]]

\* the three fire times of one day's schedule (fajr, asr: parsed datetimes)
morning_athkar_time(fajr) == AddMinutes(DT(fajr.date, fajr.min), 35)

evening_athkar_time(asr) == AddMinutes(DT(asr.date, asr.min), 30)

\* faulty variant: the pages a quarter of an hour after the evening reminder
quran_time_quarter(asr) == AddMinutes(evening_athkar_time(asr), 15)

\* faulty variant: the pages ten hours before the evening reminder
quran_time_hours_before(asr) == AddMinutes(evening_athkar_time(asr), 0 - 600)

quran_time(asr) == AddMinutes(evening_athkar_time(asr), 10)

\* faulty variant: today's evening tasks are appended before the morning one
TodayTasks_evening_first(now_, fajr, asr) ==
    LET today == now_.date
        morning == IF DTLeq(morning_athkar_time(fajr), now_) THEN <<>>
                   ELSE <<MorningTask(morning_athkar_time(fajr))>>
        evening == IF DTLeq(evening_athkar_time(asr), now_) THEN <<>>
                   ELSE <<EveningTask(evening_athkar_time(asr)),
                          QuranTask(quran_time(asr), get_next_quran_pages_for_date(today))>>
    IN  evening \o morning

\* lines 499-540: the tasks kept on today's schedule
TodayTasks(now_, fajr, asr) ==
    LET today == now_.date
        morning == IF DTLeq(morning_athkar_time(fajr), now_) THEN <<>>
                   ELSE <<MorningTask(morning_athkar_time(fajr))>>
        evening == IF DTLeq(evening_athkar_time(asr), now_) THEN <<>>
                   ELSE IF DTLeq(quran_time(asr), now_)
                        THEN <<EveningTask(evening_athkar_time(asr))>>
                   ELSE <<EveningTask(evening_athkar_time(asr)),
                          QuranTask(quran_time(asr), get_next_quran_pages_for_date(today))>>
    IN  morning \o evening

\* faulty variant: only the evening reminder is moved once its time has passed
TasksForTomorrow_evening_only(now_, fajr, asr) ==
    (IF DTLeq(morning_athkar_time(fajr), now_) THEN {"morning_athkar"} ELSE {})
    \cup
    (IF DTLeq(evening_athkar_time(asr), now_) THEN {"evening_athkar"}
     ELSE IF DTLeq(quran_time(asr), now_) THEN {"quran"}
     ELSE {})

\* lines 499-519: tasks_for_tomorrow
TasksForTomorrow(now_, fajr, asr) ==
    (IF DTLeq(morning_athkar_time(fajr), now_) THEN {"morning_athkar"} ELSE {})
    \cup
    (IF DTLeq(evening_athkar_time(asr), now_) THEN {"evening_athkar", "quran"}
     ELSE IF DTLeq(quran_time(asr), now_) THEN {"quran"}
     ELSE {})

\* lines 559-589: the tasks placed on tomorrow's schedule
TomorrowTasks(tomorrow, tasks_for_tomorrow, fajr, asr) ==
    (IF "morning_athkar" \in tasks_for_tomorrow
     THEN <<MorningTask(morning_athkar_time(fajr))>> ELSE <<>>)
    \o
    (IF "evening_athkar" \in tasks_for_tomorrow
     THEN <<EveningTask(evening_athkar_time(asr))>> ELSE <<>>)
    \o
    (IF "quran" \in tasks_for_tomorrow
     THEN <<QuranTask(quran_time(asr), get_next_quran_pages_for_date(tomorrow))>> ELSE <<>>)

\* The planning part of schedule_tasks (lines 433-589), given the clock and the
\* timings fetched for today and (when the pass fetches them) for tomorrow:
\* the new DAILY_TASKS, whether the pass reaches the job registration, and
\* whether it fetched tomorrow's timings.
PlanTasks(now_, prayer_times_today, prayer_times_tomorrow) ==
    LET today == now_.date
        tomorrow == today + 1
        fajr_time_today == get_prayer_time("Fajr", today, prayer_times_today)
        asr_time_today == get_prayer_time("Asr", today, prayer_times_today)
        fajr_time_tomorrow == get_prayer_time("Fajr", tomorrow, prayer_times_tomorrow)
        asr_time_tomorrow == get_prayer_time("Asr", tomorrow, prayer_times_tomorrow)
    IN  IF DOMAIN prayer_times_today = {}
        THEN \* schedule_fallback_tasks is not defined: NameError, caught at line 628
             [tasks |-> <<>>, registers |-> FALSE, need_tomorrow_times |-> FALSE]
        ELSE IF ~fajr_time_today.ok \/ ~asr_time_today.ok
        THEN [tasks |-> <<>>, registers |-> FALSE, need_tomorrow_times |-> FALSE]
        ELSE LET tasks_today == TodayTasks(now_, fajr_time_today, asr_time_today)
                 tasks_for_tomorrow == TasksForTomorrow(now_, fajr_time_today, asr_time_today)
             IN  IF tasks_for_tomorrow = {}
                 THEN [tasks |-> tasks_today, registers |-> TRUE, need_tomorrow_times |-> FALSE]
                 ELSE IF DOMAIN prayer_times_tomorrow = {}
                 THEN [tasks |-> tasks_today, registers |-> FALSE, need_tomorrow_times |-> TRUE]
                 ELSE IF ~fajr_time_tomorrow.ok \/ ~asr_time_tomorrow.ok
                 THEN [tasks |-> tasks_today, registers |-> FALSE, need_tomorrow_times |-> TRUE]
                 ELSE [tasks |-> tasks_today \o
                                 TomorrowTasks(tomorrow, tasks_for_tomorrow,
                                               fajr_time_tomorrow, asr_time_tomorrow),
                       registers |-> TRUE, need_tomorrow_times |-> TRUE]

----------------------------------------------------------------------------
(* Job register: scheduler.add_job(..., id=..., replace_existing=True) *)

\* faulty variant: the job gets the date of the planning pass
QuranJobArgs_today(task) == <<now.date>>

\* lines 613-617: args=[task['time'].date()]
QuranJobArgs(task) == <<task.time.date>>

\* the job of one task; the id is the kind and strftime('%Y%m%d') of its time
JobOf(task) ==
    IF task.type = "morning_athkar"
    THEN [id |-> <<"morning_athkar", task.time.date>>, func |-> "send_athkar",
          run_date |-> task.time, args |-> <<"morning">>]
    ELSE IF task.type = "evening_athkar"
    THEN [id |-> <<"night_athkar", task.time.date>>, func |-> "send_athkar",
          run_date |-> task.time, args |-> <<"night">>]
    ELSE [id |-> <<"quran_pages", task.time.date>>, func |-> "send_quran_pages",
          run_date |-> task.time, args |-> QuranJobArgs(task)]

\* faulty variant: a job of the same id is kept beside the new one
add_job_keep_existing(store, job) == store \cup {job}

\* add_job with replace_existing: a job of the same id is replaced
add_job(store, job) == {j \in store : j.id # job.id} \cup {job}

RECURSIVE RegisterJobs(_, _)
\* lines 591-621: for task in DAILY_TASKS: scheduler.add_job(...)
RegisterJobs(store, tasks) ==
    IF tasks = <<>> THEN store
    ELSE RegisterJobs(add_job(store, JobOf(Head(tasks))), Tail(tasks))

misfire_grace_time == 300

\* faulty variant: no grace time, a missed job runs however late
Due_any_time(job) == DTLeq(job.run_date, now)

\* the job is due and the scheduler still runs it
Due(job) == DTLeq(job.run_date, now) /\ SecondsBetween(now, job.run_date) <= misfire_grace_time

\* the job was missed by more than the grace time
Misfired(job) == DTLeq(job.run_date, now) /\ SecondsBetween(now, job.run_date) > misfire_grace_time

\* the record of one job leaving the store: executed, or dropped as missed
JobRun(job, executed) == [id |-> job.id, executed |-> executed]

\* the same, with the seconds the scheduler was late by
LatestRun(job, executed) ==
    [id |-> job.id, executed |-> executed, late |-> SecondsBetween(now, job.run_date)]

NoRun == [id |-> <<>>, executed |-> FALSE, late |-> 0]

----------------------------------------------------------------------------
(* The program: main, its loop, the clock, the scheduler's firings *)

StartDate == MkDate(2025, 5, 24)

\* the instants the clock visits each day: midnight, before and at each fire
\* time of the two schedules, within and past the grace time of each
ClockPoints == <<0, 227, 305, 600, 935, 940, 945, 1020, 1025, 1030, 1040>>

NoPass ==
    [done |-> FALSE, now |-> DT(0, 0), prayer_times_today |-> NoTimings,
     prayer_times_tomorrow |-> NoTimings, today_fallback |-> FALSE,
     tomorrow_fallback |-> FALSE, need_tomorrow_times |-> FALSE, registers |-> FALSE,
     replaced |-> {}]

BotInit ==
    /\ now \in {DT(StartDate, ClockPoints[i]) : i \in 1..Len(ClockPoints)}
    /\ started = FALSE
    /\ last_scheduled_date = 0
    /\ DAILY_TASKS = <<>>
    /\ jobs = {}
    /\ posts = <<>>
    /\ deletes = <<>>
    /\ next_message_id = 1
    /\ pass = NoPass
    /\ runs = <<>>
    /\ last_run = NoRun

\* no send_athkar call of the legacy bot yet
NoAthkar == [time_of_day |-> "", posted |-> FALSE, old_id |-> 0, new_id |-> 0, delete |-> "none"]

\* no content action invoked yet
NoCall == [func |-> "", arg |-> <<>>, validated |-> {}, attempts |-> <<>>, posts_before |-> 0]

\* no send_quran_pages call of the counter variant yet
NoCounterCall == [sent |-> FALSE, before |-> 0, saved_before |-> 0, pages |-> <<>>]

\* ConversationHandler.END: no conversation is kept for the user
END == "END"

\* the legacy bot's record as load_message_ids gives it on a first start,
\* and the step-by-step specs' variables outside those specs
RestIdle ==
    /\ message_ids = [morning |-> 0, night |-> 0]
    /\ last_athkar = NoAthkar
    /\ s_pc = "idle"
    /\ s_call = NoCall
    /\ l_pc = "idle"
    /\ l_current_date = 0
    /\ l_running = 0
    /\ l_exception = {}
    /\ n_pc = "idle"
    /\ u_conversation = END
    /\ u_log = <<>>

\* the counter variant after import with no counter file: page_number 200
CounterIdle ==
    /\ quran_page_number = 200
    /\ c_saved = 200
    /\ c_last = NoCounterCall

SideIdle == RestIdle /\ CounterIdle

\* the gateway spec's variables outside that spec
GatewayIdle ==
    /\ g_target_date = 0
    /\ g_city = NoResponse
    /\ g_coords = NoResponse
    /\ g_pc = "idle"
    /\ g_queried = <<>>
    /\ g_warned = {}
    /\ g_timings = NoTimings

Init ==
    /\ BotInit
    /\ q_date = 0
    /\ q_pages = <<>>
    /\ q_next = <<>>
    /\ q_period = <<>>
    /\ q_today = <<>>
    /\ GatewayIdle
    /\ SideIdle

\* whether a pass at the current instant with these answers for today goes on
\* to fetch tomorrow's timings
FetchesTomorrow(today_answers) ==
    PlanTasks(now, fetch_prayer_times(today_answers[1], today_answers[2]),
              NoTimings).need_tomorrow_times

\* the answers the fetch for tomorrow can meet; no fetch, no answers to draw
TomorrowAnswers(today_answers) ==
    IF FetchesTomorrow(today_answers) THEN ProviderAnswers ELSE {today_answers}

\* schedule_tasks with the providers' answers to the fetch for today and to
\* the fetch for tomorrow
schedule_tasks(today_answers, tomorrow_answers) ==
    LET city1 == today_answers[1]
        coords1 == today_answers[2]
        city2 == tomorrow_answers[1]
        coords2 == tomorrow_answers[2]
        prayer_times_today == fetch_prayer_times(city1, coords1)
        prayer_times_tomorrow == fetch_prayer_times(city2, coords2)
        plan == PlanTasks(now, prayer_times_today, prayer_times_tomorrow)
    IN  /\ DAILY_TASKS' = plan.tasks
        /\ jobs' = IF plan.registers THEN RegisterJobs(jobs, plan.tasks) ELSE jobs
        /\ pass' = [done |-> TRUE, now |-> now,
                    prayer_times_today |-> prayer_times_today,
                    prayer_times_tomorrow |->
                        IF plan.need_tomorrow_times THEN prayer_times_tomorrow ELSE NoTimings,
                    today_fallback |-> BothProvidersFail(city1, coords1),
                    tomorrow_fallback |->
                        plan.need_tomorrow_times /\ BothProvidersFail(city2, coords2),
                    need_tomorrow_times |-> plan.need_tomorrow_times,
                    registers |-> plan.registers,
                    replaced |->
                        IF plan.registers
                        THEN {job.id : job \in jobs} \cap
                             {JobOf(plan.tasks[i]).id : i \in 1..Len(plan.tasks)}
                        ELSE {}]

\* fazkerbot.main up to its loop: scheduler.start(), schedule_tasks(),
\* last_scheduled_date = today
StartMain ==
    /\ ~started
    /\ \E today_answers \in ProviderAnswers :
          \E tomorrow_answers \in TomorrowAnswers(today_answers) :
             schedule_tasks(today_answers, tomorrow_answers)
    /\ started' = TRUE
    /\ last_scheduled_date' = now.date
    /\ UNCHANGED <<now, posts, deletes, next_message_id, runs, last_run, pagesVars,
                   gatewayVars, sideVars>>

\* main.combined_main up to its loop: the same, with last_scheduled_date = None
StartCombinedMain ==
    /\ ~started
    /\ \E today_answers \in ProviderAnswers :
          \E tomorrow_answers \in TomorrowAnswers(today_answers) :
             schedule_tasks(today_answers, tomorrow_answers)
    /\ started' = TRUE
    /\ last_scheduled_date' = 0
    /\ UNCHANGED <<now, posts, deletes, next_message_id, runs, last_run, pagesVars,
                   gatewayVars, sideVars>>

\* one iteration of the main loop that finds a new date
MainLoopNewDate ==
    /\ started
    /\ last_scheduled_date # now.date
    /\ \E today_answers \in ProviderAnswers :
          \E tomorrow_answers \in TomorrowAnswers(today_answers) :
             schedule_tasks(today_answers, tomorrow_answers)
    /\ last_scheduled_date' = now.date
    /\ UNCHANGED <<now, started, posts, deletes, next_message_id, runs, last_run,
                   pagesVars, gatewayVars, sideVars>>

\* the clock moves to its next instant; the main loop polls every 60 seconds,
\* so a new date is planned before the clock leaves its first instant, and the
\* scheduler, which shares the event loop, has dropped the jobs it found
\* missed beyond the grace time
Tick ==
    /\ started
    /\ last_scheduled_date = now.date
    /\ \A job \in jobs : ~Misfired(job)
    /\ \/ /\ \E i \in 1..(Len(ClockPoints) - 1) :
                /\ now.min = ClockPoints[i]
                /\ now' = DT(now.date, ClockPoints[i + 1])
       \/ /\ now.min = ClockPoints[Len(ClockPoints)]
          /\ now.date < StartDate + MaxDays
          /\ now' = DT(now.date + 1, ClockPoints[1])
    /\ UNCHANGED <<started, last_scheduled_date, DAILY_TASKS, jobs, posts, deletes,
                   next_message_id, pass, runs, last_run, pagesVars, gatewayVars, sideVars>>

\* send_athkar (fazkerbot.py): the image check, the post, one retry after an
\* exception; no deletion and no record of the message
send_athkar(athkar_type, image_ok, first_ok, retry_ok) ==
    LET posted == image_ok /\ (first_ok \/ retry_ok)
    IN  /\ posts' = IF posted
                    THEN Append(posts, [kind |-> athkar_type, id |-> next_message_id,
                                        pages |-> <<>>, date |-> now.date])
                    ELSE posts
        /\ next_message_id' = IF posted THEN next_message_id + 1 ELSE next_message_id
        /\ UNCHANGED deletes

\* send_quran_pages(target_date): the two page images are checked, then posted
\* as one media group
send_quran_pages(target_date, images_ok, group_ok) ==
    LET pages == get_next_quran_pages_for_date(target_date)
        posted == images_ok /\ group_ok
    IN  /\ posts' = IF posted
                    THEN Append(posts, [kind |-> "quran", id |-> next_message_id,
                                        pages |-> pages, date |-> now.date])
                    ELSE posts
        /\ next_message_id' = IF posted THEN next_message_id + 2 ELSE next_message_id
        /\ UNCHANGED deletes

\* the scheduler runs a due reminder job
FireSendAthkar ==
    /\ started
    /\ \E job \in jobs :
          /\ job.func = "send_athkar"
          /\ Due(job)
          /\ jobs' = jobs \ {job}
          /\ runs' = Append(runs, JobRun(job, TRUE))
          /\ last_run' = LatestRun(job, TRUE)
          /\ \E image_ok \in BOOLEAN, first_ok \in BOOLEAN, retry_ok \in BOOLEAN :
                send_athkar(job.args[1], image_ok, first_ok, retry_ok)
    /\ UNCHANGED <<now, started, last_scheduled_date, DAILY_TASKS, pass, pagesVars, gatewayVars, sideVars>>

\* the scheduler runs a due document-pages job
FireSendQuranPages ==
    /\ started
    /\ \E job \in jobs :
          /\ job.func = "send_quran_pages"
          /\ Due(job)
          /\ jobs' = jobs \ {job}
          /\ runs' = Append(runs, JobRun(job, TRUE))
          /\ last_run' = LatestRun(job, TRUE)
          /\ \E images_ok \in BOOLEAN, group_ok \in BOOLEAN :
                send_quran_pages(job.args[1], images_ok, group_ok)
    /\ UNCHANGED <<now, started, last_scheduled_date, DAILY_TASKS, pass, pagesVars, gatewayVars, sideVars>>

\* the scheduler drops a job it missed by more than misfire_grace_time
DropMisfiredJob ==
    /\ started
    /\ \E job \in jobs :
          /\ Misfired(job)
          /\ jobs' = jobs \ {job}
          /\ runs' = Append(runs, JobRun(job, FALSE))
          /\ last_run' = LatestRun(job, FALSE)
    /\ UNCHANGED <<now, started, last_scheduled_date, DAILY_TASKS, posts, deletes,
                   next_message_id, pass, pagesVars, gatewayVars, sideVars>>

Next ==
    \/ StartMain
    \/ StartCombinedMain
    \/ MainLoopNewDate
    \/ Tick
    \/ FireSendAthkar
    \/ FireSendQuranPages
    \/ DropMisfiredJob

Spec == Init /\ [][Next]_vars

----------------------------------------------------------------------------
(* Specification of the page function alone: a date is drawn, the function *)
(* is applied to it and to the following date.                             *)

PagesDates == (anchor_date - PagesSpan) .. (anchor_date + PagesSpan)

PagesInit ==
    /\ q_date \in PagesDates
    /\ q_pages = <<>>
    /\ q_next = <<>>
    /\ q_period = <<>>
    /\ q_today = <<>>
    /\ GatewayIdle
    /\ SideIdle
    /\ now = DT(StartDate, 0)
    /\ started = FALSE
    /\ last_scheduled_date = 0
    /\ DAILY_TASKS = <<>>
    /\ jobs = {}
    /\ posts = <<>>
    /\ deletes = <<>>
    /\ next_message_id = 1
    /\ pass = NoPass
    /\ runs = <<>>
    /\ last_run = NoRun

CallPagesForDate ==
    /\ q_pages = <<>>
    /\ q_pages' = get_next_quran_pages_for_date(q_date)
    /\ UNCHANGED <<q_date, q_next, q_period, q_today, botVars, gatewayVars, sideVars>>

CallPagesForNextDate ==
    /\ q_pages # <<>>
    /\ q_next = <<>>
    /\ q_next' = get_next_quran_pages_for_date(q_date + 1)
    /\ UNCHANGED <<q_date, q_pages, q_period, q_today, botVars, gatewayVars, sideVars>>

\* the function asked for the date total_pages / 2 days later
CallPagesForDateAfterCycle ==
    /\ q_pages # <<>>
    /\ q_period = <<>>
    /\ q_period' = get_next_quran_pages_for_date(q_date + (total_pages \div 2))
    /\ UNCHANGED <<q_date, q_pages, q_next, q_today, botVars, gatewayVars, sideVars>>

\* log_status_message calls get_next_quran_pages() when the current date is
\* q_date
CallPagesOfToday ==
    /\ q_pages # <<>>
    /\ q_today = <<>>
    /\ q_today' = get_next_quran_pages(q_date)
    /\ UNCHANGED <<q_date, q_pages, q_next, q_period, botVars, gatewayVars, sideVars>>

PagesNext ==
    \/ CallPagesForDate
    \/ CallPagesForNextDate
    \/ CallPagesForDateAfterCycle
    \/ CallPagesOfToday

SpecPages == PagesInit /\ [][PagesNext]_vars

----------------------------------------------------------------------------
(* Specification of one gateway call, step by step: the providers' answers *)
(* to the request are drawn, then fetch_prayer_times_with_fallback runs.    *)

GatewayInit ==
    /\ g_target_date = StartDate
    /\ g_city \in DatedResponses
    /\ g_coords \in DatedResponses
    /\ g_pc = "city"
    /\ g_queried = <<>>
    /\ g_warned = {}
    /\ g_timings = NoTimings
    /\ q_date = 0
    /\ q_pages = <<>>
    /\ q_next = <<>>
    /\ q_period = <<>>
    /\ q_today = <<>>
    /\ now = DT(StartDate, 0)
    /\ started = FALSE
    /\ last_scheduled_date = 0
    /\ DAILY_TASKS = <<>>
    /\ jobs = {}
    /\ posts = <<>>
    /\ deletes = <<>>
    /\ next_message_id = 1
    /\ pass = NoPass
    /\ runs = <<>>
    /\ last_run = NoRun
    /\ SideIdle

\* the warning of lines 138-139 and 186-187: the answer had status 200 and
\* its date failed the validation
Warned(source, response) ==
    IF response.status = 200 /\ ~validate_api_response(response, g_target_date)
    THEN g_warned \cup {source} ELSE g_warned

\* lines 90-93: timings = await try_city_api(...); if timings: return timings
GatewayTryCity ==
    /\ g_pc = "city"
    /\ g_queried' = Append(g_queried, "city")
    /\ g_warned' = Warned("city", g_city)
    /\ LET timings == try_city_api(g_city)
       IN  IF truthy(timings)
           THEN g_timings' = timings /\ g_pc' = "done"
           ELSE g_timings' = g_timings /\ g_pc' = "coords"
    /\ UNCHANGED <<g_target_date, g_city, g_coords, botVars, pagesVars, sideVars>>

\* lines 95-98: timings = await try_coordinates_api(...); if timings: return timings
GatewayTryCoordinates ==
    /\ g_pc = "coords"
    /\ g_queried' = Append(g_queried, "coords")
    /\ g_warned' = Warned("coords", g_coords)
    /\ LET timings == try_coordinates_api(g_coords)
       IN  IF truthy(timings)
           THEN g_timings' = timings /\ g_pc' = "done"
           ELSE g_timings' = g_timings /\ g_pc' = "fallback"
    /\ UNCHANGED <<g_target_date, g_city, g_coords, botVars, pagesVars, sideVars>>

\* lines 100-102: return FALLBACK_PRAYER_TIMES
GatewayReturnFallback ==
    /\ g_pc = "fallback"
    /\ g_queried' = Append(g_queried, "fallback")
    /\ g_timings' = FALLBACK_PRAYER_TIMES
    /\ g_pc' = "done"
    /\ UNCHANGED <<g_target_date, g_city, g_coords, g_warned, botVars, pagesVars, sideVars>>

GatewayNext == GatewayTryCity \/ GatewayTryCoordinates \/ GatewayReturnFallback

SpecGateway == GatewayInit /\ [][GatewayNext]_vars

----------------------------------------------------------------------------
(* Specification of the legacy bot's reminder action (fazkerbot_n.py), which *)
(* records the ids of the reminders it posted and deletes the previous one.  *)

\* the bot's variables outside the main specification
BotIdle ==
    /\ now = DT(StartDate, 0)
    /\ started = FALSE
    /\ last_scheduled_date = 0
    /\ DAILY_TASKS = <<>>
    /\ jobs = {}
    /\ posts = <<>>
    /\ deletes = <<>>
    /\ next_message_id = 1
    /\ pass = NoPass
    /\ runs = <<>>
    /\ last_run = NoRun

PagesIdle ==
    /\ q_date = 0
    /\ q_pages = <<>>
    /\ q_next = <<>>
    /\ q_period = <<>>
    /\ q_today = <<>>

LegacyInit == BotIdle /\ PagesIdle /\ GatewayIdle /\ SideIdle

\* what bot.delete_message can meet: success, BadRequest 'Message to delete
\* not found', another BadRequest, another TelegramError (timeout, forbidden)
DeleteOutcomes == {"ok", "not_found", "bad_request", "telegram_error"}

\* faulty variant: only a successful deletion lets the action go on
delete_goes_on_if_ok(outcome) == outcome = "ok"

\* lines 160-166 of fazkerbot_n.py: the inner try returns normally or catches
\* telegram.error.BadRequest; any other exception leaves the inner try
delete_goes_on(outcome) == outcome \in {"ok", "not_found", "bad_request"}

\* fazkerbot_n.send_athkar(time_of_day)
legacy_send_athkar(time_of_day, post_ok, delete_outcome) ==
    LET previous_time == IF time_of_day = "morning" THEN "night" ELSE "morning"
        old_id == message_ids[previous_time]
        deleting == post_ok /\ old_id # 0
        updates == post_ok /\ (deleting => delete_goes_on(delete_outcome))
    IN  /\ posts' = IF post_ok
                    THEN Append(posts, [kind |-> time_of_day, id |-> next_message_id,
                                        pages |-> <<>>, date |-> now.date])
                    ELSE posts
        /\ next_message_id' = IF post_ok THEN next_message_id + 1 ELSE next_message_id
        /\ deletes' = IF deleting THEN Append(deletes, old_id) ELSE deletes
        /\ message_ids' = IF updates
                          THEN [message_ids EXCEPT ![previous_time] = 0,
                                                   ![time_of_day] = next_message_id]
                          ELSE message_ids
        /\ last_athkar' = [time_of_day |-> time_of_day, posted |-> post_ok,
                           old_id |-> IF deleting THEN old_id ELSE 0,
                           new_id |-> IF post_ok THEN next_message_id ELSE 0,
                           delete |-> IF deleting THEN delete_outcome ELSE "none"]

\* the scheduler runs the morning reminder job
LegacyMorningJob ==
    /\ next_message_id <= MaxMessages
    /\ \E post_ok \in BOOLEAN, delete_outcome \in DeleteOutcomes :
          legacy_send_athkar("morning", post_ok, delete_outcome)
    /\ UNCHANGED <<now, started, last_scheduled_date, DAILY_TASKS, jobs, pass, runs,
                   last_run, pagesVars, gatewayVars, otherVars, sendVars, loopVars>>

\* the scheduler runs the evening reminder job
LegacyNightJob ==
    /\ next_message_id <= MaxMessages
    /\ \E post_ok \in BOOLEAN, delete_outcome \in DeleteOutcomes :
          legacy_send_athkar("night", post_ok, delete_outcome)
    /\ UNCHANGED <<now, started, last_scheduled_date, DAILY_TASKS, jobs, pass, runs,
                   last_run, pagesVars, gatewayVars, otherVars, sendVars, loopVars>>

LegacyNext == LegacyMorningJob \/ LegacyNightJob

SpecLegacy == LegacyInit /\ [][LegacyNext]_vars

----------------------------------------------------------------------------
(* Specification of the content actions of fazkerbot.py, step by step: one *)
(* invocation of send_athkar or send_quran_pages at a time, each GET and    *)
(* each post a step of its own.                                            *)

SendInit == BotIdle /\ PagesIdle /\ GatewayIdle /\ SideIdle

\* what the GET of an image can meet: a JPEG, a missing file, a page that is
\* not a JPEG, an exception (status 0)
ImageResponses ==
    { [status |-> 200, head |-> "ffd8"],
      [status |-> 404, head |-> ""],
      [status |-> 200, head |-> "<htm"],
      [status |-> 0, head |-> ""] }

\* response.status == 200 and content.startswith(b'\xff\xd8')
image_valid(response) == response.status = 200 /\ response.head = "ffd8"

\* faulty variant: the action tries again after every failed attempt
after_send_photo_raised_again(attempt) == "retry"

\* lines 358-371: the first attempt's handler retries, the retry's handler
\* only logs
after_send_photo_raised(attempt) == IF attempt = 1 THEN "retry" ELSE "idle"

\* faulty variant: an invalid page does not end the action
after_page_check_ignored(valid, next_pc) == next_pc

\* lines 396-409: return on an invalid page, go on after a valid one
after_page_check(valid, next_pc) == IF valid THEN next_pc ELSE "idle"

\* the scheduler invokes send_athkar(athkar_type)
BeginSendAthkar ==
    /\ s_pc = "idle"
    /\ next_message_id <= MaxMessages
    /\ \E athkar_type \in {"morning", "night"} :
          s_call' = [func |-> "send_athkar", arg |-> <<athkar_type>>, validated |-> {},
                     attempts |-> <<>>, posts_before |-> Len(posts)]
    /\ s_pc' = "validate_image"
    /\ UNCHANGED <<botVars, pagesVars, gatewayVars, otherVars, legacyVars, loopVars>>

\* lines 331-344: the GET of the reminder image
ValidateAthkarImage ==
    /\ s_pc = "validate_image"
    /\ \E response \in ImageResponses :
          /\ s_call' = IF image_valid(response)
                       THEN [s_call EXCEPT !.validated = @ \cup {"image"}]
                       ELSE s_call
          /\ s_pc' = IF image_valid(response) THEN "send_photo" ELSE "idle"
    /\ UNCHANGED <<botVars, pagesVars, gatewayVars, otherVars, legacyVars, loopVars>>

\* one bot.send_photo attempt of send_athkar: the message is posted, or the
\* call raises
send_photo_attempt(sent) ==
    LET n == Len(s_call.attempts) + 1
    IN  /\ s_call' = [s_call EXCEPT !.attempts = Append(@, IF sent THEN "sent" ELSE "raised")]
        /\ posts' = IF sent
                    THEN Append(posts, [kind |-> s_call.arg[1], id |-> next_message_id,
                                        pages |-> <<>>, date |-> now.date])
                    ELSE posts
        /\ next_message_id' = IF sent THEN next_message_id + 1 ELSE next_message_id
        /\ s_pc' = IF sent THEN "idle" ELSE after_send_photo_raised(n)

\* lines 346-356: the first attempt
SendAthkarPhoto ==
    /\ s_pc = "send_photo"
    /\ \E sent \in BOOLEAN : send_photo_attempt(sent)
    /\ UNCHANGED <<now, started, last_scheduled_date, DAILY_TASKS, jobs, deletes, pass,
                   runs, last_run, pagesVars, gatewayVars, otherVars, legacyVars, loopVars>>

\* lines 358-371: the retry after the first attempt raised
RetryAthkarPhoto ==
    /\ s_pc = "retry"
    /\ \E sent \in BOOLEAN : send_photo_attempt(sent)
    /\ UNCHANGED <<now, started, last_scheduled_date, DAILY_TASKS, jobs, deletes, pass,
                   runs, last_run, pagesVars, gatewayVars, otherVars, legacyVars, loopVars>>

\* the scheduler invokes send_quran_pages(target_date)
BeginSendQuranPages ==
    /\ s_pc = "idle"
    /\ next_message_id <= MaxMessages
    /\ \E target_date \in {StartDate, StartDate + 1} :
          s_call' = [func |-> "send_quran_pages", arg |-> <<target_date>>, validated |-> {},
                     attempts |-> <<>>, posts_before |-> Len(posts)]
    /\ s_pc' = "validate_page1"
    /\ UNCHANGED <<botVars, pagesVars, gatewayVars, otherVars, legacyVars, loopVars>>

\* lines 394-409, first round of the loop: the GET of page_1_url
ValidateQuranPage1 ==
    /\ s_pc = "validate_page1"
    /\ \E response \in ImageResponses :
          /\ s_call' = IF image_valid(response)
                       THEN [s_call EXCEPT !.validated = @ \cup {"page1"}]
                       ELSE s_call
          /\ s_pc' = after_page_check(image_valid(response), "validate_page2")
    /\ UNCHANGED <<botVars, pagesVars, gatewayVars, otherVars, legacyVars, loopVars>>

\* lines 394-409, second round: the GET of page_2_url
ValidateQuranPage2 ==
    /\ s_pc = "validate_page2"
    /\ \E response \in ImageResponses :
          /\ s_call' = IF image_valid(response)
                       THEN [s_call EXCEPT !.validated = @ \cup {"page2"}]
                       ELSE s_call
          /\ s_pc' = after_page_check(image_valid(response), "send_media_group")
    /\ UNCHANGED <<botVars, pagesVars, gatewayVars, otherVars, legacyVars, loopVars>>

\* lines 411-425 and send_media_group: the two pages as one media group, which
\* the messaging service accepts whole or rejects
SendQuranMediaGroup ==
    /\ s_pc = "send_media_group"
    /\ \E sent \in BOOLEAN :
          /\ s_call' = [s_call EXCEPT !.attempts = Append(@, IF sent THEN "sent" ELSE "raised")]
          /\ posts' = IF sent
                      THEN Append(posts, [kind |-> "quran", id |-> next_message_id,
                                          pages |-> get_next_quran_pages_for_date(s_call.arg[1]),
                                          date |-> now.date])
                      ELSE posts
          /\ next_message_id' = IF sent THEN next_message_id + 2 ELSE next_message_id
    /\ s_pc' = "idle"
    /\ UNCHANGED <<now, started, last_scheduled_date, DAILY_TASKS, jobs, deletes, pass,
                   runs, last_run, pagesVars, gatewayVars, otherVars, legacyVars, loopVars>>

SendNext ==
    \/ BeginSendAthkar
    \/ ValidateAthkarImage
    \/ SendAthkarPhoto
    \/ RetryAthkarPhoto
    \/ BeginSendQuranPages
    \/ ValidateQuranPage1
    \/ ValidateQuranPage2
    \/ SendQuranMediaGroup

SpecSend == SendInit /\ [][SendNext]_vars

----------------------------------------------------------------------------
(* SpecLoop: the main coroutine of fazkerbot.main and main.combined_main step
   by step, with the invocations of schedule_tasks it makes.  l_pc is the
   statement the coroutine is at, l_running the number of invocations of
   schedule_tasks in progress, l_exception the handlers that have caught an
   exception so far ("uncaught" for an exception no handler caught). *)

LoopInit == BotInit /\ PagesIdle /\ GatewayIdle /\ SideIdle

\* the statements at which the main coroutine awaits schedule_tasks
AwaitsPass == {"main:744", "combined_main:59", "loop:schedule_tasks"}

\* the statements at which the main coroutine is suspended, so that the event
\* loop can run a job of the scheduler
Suspended == AwaitsPass \cup {"loop:sleep", "loop:except_sleep"}

\* the statement after the await of schedule_tasks
Continuation(await_pc) ==
    IF await_pc = "main:744" THEN "main:749"
    ELSE IF await_pc = "combined_main:59" THEN "combined_main:74"
    ELSE "loop:log_status"

\* faulty variant: the invocation is started as a task of its own and the
\* caller goes on
after_call_detached(await_pc) == Continuation(await_pc)

\* 'await schedule_tasks()': the caller stays at the await until the
\* invocation has returned
after_call(await_pc) == await_pc

\* faulty variant: schedule_tasks without its try/except; the exception
\* reaches the caller, which has a handler only inside the loop
exception_in_pass_propagates(await_pc) ==
    IF await_pc = "loop:schedule_tasks"
    THEN [handler |-> "main_loop", pc |-> "loop:except_sleep"]
    ELSE [handler |-> "uncaught", pc |-> "crashed"]

\* an exception raised in the body of schedule_tasks is caught and logged by
\* its own 'except Exception' and the invocation returns normally
exception_in_pass(await_pc) ==
    [handler |-> "schedule_tasks", pc |-> Continuation(await_pc)]

\* fazkerbot.main: scheduler.start(), then the startup call of schedule_tasks
LoopStartMain ==
    /\ l_pc = "idle"
    /\ started' = TRUE
    /\ l_running' = l_running + 1
    /\ l_pc' = after_call("main:744")
    /\ UNCHANGED <<now, last_scheduled_date, DAILY_TASKS, jobs, posts, deletes,
                   next_message_id, pass, runs, last_run, l_current_date, l_exception,
                   pagesVars, gatewayVars, otherVars, legacyVars, sendVars>>

\* main.combined_main: the same call
LoopStartCombinedMain ==
    /\ l_pc = "idle"
    /\ started' = TRUE
    /\ l_running' = l_running + 1
    /\ l_pc' = after_call("combined_main:59")
    /\ UNCHANGED <<now, last_scheduled_date, DAILY_TASKS, jobs, posts, deletes,
                   next_message_id, pass, runs, last_run, l_current_date, l_exception,
                   pagesVars, gatewayVars, otherVars, legacyVars, sendVars>>

\* an invocation of schedule_tasks comes to its end and returns
PassReturns ==
    /\ l_running > 0
    /\ l_running' = l_running - 1
    /\ l_pc' = IF l_pc \in AwaitsPass THEN Continuation(l_pc) ELSE l_pc
    /\ UNCHANGED <<botVars, l_current_date, l_exception, pagesVars, gatewayVars, otherVars,
                   legacyVars, sendVars>>

\* a statement in the body of schedule_tasks raises
PassRaises ==
    /\ l_running > 0
    /\ l_running' = l_running - 1
    /\ LET outcome == exception_in_pass(l_pc)
       IN  IF l_pc \in AwaitsPass
           THEN l_pc' = outcome.pc /\ l_exception' = l_exception \cup {outcome.handler}
           ELSE l_pc' = l_pc /\ l_exception' = l_exception \cup {"schedule_tasks"}
    /\ UNCHANGED <<botVars, l_current_date, pagesVars, gatewayVars, otherVars, legacyVars, sendVars>>

\* last_scheduled_date = datetime.now(CAIRO_TZ).date() in fazkerbot.main
LoopStartupDateMain ==
    /\ l_pc = "main:749"
    /\ last_scheduled_date' = now.date
    /\ l_pc' = "loop:now"
    /\ UNCHANGED <<now, started, DAILY_TASKS, jobs, posts, deletes, next_message_id,
                   pass, runs, last_run, l_current_date, l_running, l_exception,
                   pagesVars, gatewayVars, otherVars, legacyVars, sendVars>>

\* last_scheduled_date = None in main.combined_main
LoopStartupDateCombinedMain ==
    /\ l_pc = "combined_main:74"
    /\ last_scheduled_date' = 0
    /\ l_pc' = "loop:now"
    /\ UNCHANGED <<now, started, DAILY_TASKS, jobs, posts, deletes, next_message_id,
                   pass, runs, last_run, l_current_date, l_running, l_exception,
                   pagesVars, gatewayVars, otherVars, legacyVars, sendVars>>

\* the head of an iteration: current_date = now.date(), and the call of
\* schedule_tasks when last_scheduled_date != current_date
LoopReadClock ==
    /\ l_pc = "loop:now"
    /\ l_current_date' = now.date
    /\ IF last_scheduled_date # now.date
       THEN /\ l_running' = l_running + 1
            /\ l_pc' = after_call("loop:schedule_tasks")
       ELSE /\ l_running' = l_running
            /\ l_pc' = "loop:sleep"
    /\ UNCHANGED <<botVars, l_exception, pagesVars, gatewayVars, otherVars, legacyVars, sendVars>>

\* await log_status_message(); last_scheduled_date = current_date
LoopRecordDate ==
    /\ l_pc = "loop:log_status"
    /\ last_scheduled_date' = l_current_date
    /\ l_pc' = "loop:sleep"
    /\ UNCHANGED <<now, started, DAILY_TASKS, jobs, posts, deletes, next_message_id,
                   pass, runs, last_run, l_current_date, l_running, l_exception,
                   pagesVars, gatewayVars, otherVars, legacyVars, sendVars>>

\* a statement of the iteration outside schedule_tasks raises: the loop's
\* 'except Exception' logs it and sleeps
LoopRaises ==
    /\ l_pc \in {"loop:now", "loop:log_status"}
    /\ l_exception' = l_exception \cup {"main_loop"}
    /\ l_pc' = "loop:except_sleep"
    /\ UNCHANGED <<botVars, l_current_date, l_running, pagesVars, gatewayVars, otherVars,
                   legacyVars, sendVars>>

\* await asyncio.sleep(60) is over, in the try body or in the handler
LoopWakes ==
    /\ l_pc \in {"loop:sleep", "loop:except_sleep"}
    /\ l_pc' = "loop:now"
    /\ UNCHANGED <<botVars, l_current_date, l_running, l_exception, pagesVars,
                   gatewayVars, otherVars, legacyVars, sendVars>>

\* the scheduler runs a reminder job while the main coroutine is suspended;
\* the job does not call schedule_tasks
LoopJobRuns ==
    /\ l_pc \in Suspended
    /\ next_message_id <= MaxMessages
    /\ \E athkar_type \in {"morning", "night"} :
          \E image_ok \in BOOLEAN, first_ok \in BOOLEAN, retry_ok \in BOOLEAN :
             send_athkar(athkar_type, image_ok, first_ok, retry_ok)
    /\ UNCHANGED <<now, started, last_scheduled_date, DAILY_TASKS, jobs, pass, runs,
                   last_run, pagesVars, gatewayVars, sideVars>>

\* midnight passes, wherever the main coroutine is
LoopMidnight ==
    /\ l_pc # "idle"
    /\ now.date < StartDate + MaxDays
    /\ now' = DT(now.date + 1, 0)
    /\ UNCHANGED <<started, last_scheduled_date, DAILY_TASKS, jobs, posts, deletes,
                   next_message_id, pass, runs, last_run, pagesVars, gatewayVars, sideVars>>

LoopNext ==
    \/ LoopStartMain
    \/ LoopStartCombinedMain
    \/ PassReturns
    \/ PassRaises
    \/ LoopStartupDateMain
    \/ LoopStartupDateCombinedMain
    \/ LoopReadClock
    \/ LoopRecordDate
    \/ LoopRaises
    \/ LoopWakes
    \/ LoopJobRuns
    \/ LoopMidnight

SpecLoop == LoopInit /\ [][LoopNext]_vars

----------------------------------------------------------------------------
(* SpecCounter: the counter-based document action of the legacy bot
   (fazkerbot_n.send_quran_pages), from every page number the counter file
   can hold in 1..604 *)

CounterInit ==
    /\ BotIdle /\ PagesIdle /\ GatewayIdle /\ RestIdle
    /\ quran_page_number \in 1..total_pages
    /\ c_saved = quran_page_number
    /\ c_last = NoCounterCall

\* quran_page_number += 2; if quran_page_number > 604: quran_page_number = 1
next_page_number(page_number) ==
    IF page_number + 2 > total_pages THEN 1 ELSE page_number + 2

\* faulty variant: the counter advances whether or not the post went through
counter_after_any(sent, page_number) == next_page_number(page_number)

\* lines 141-144 are in the try, behind send_media_group: the counter
\* advances only when the post returned
counter_after(sent, page_number) ==
    IF sent THEN next_page_number(page_number) ELSE page_number

\* send_quran_pages of fazkerbot_n: the grouped post of photo_{n} and
\* photo_{n + 1}, then the advance and the save; save_json_file logs a failed
\* write and goes on
CounterSendQuranPages ==
    \E sent \in BOOLEAN, save_ok \in BOOLEAN :
        /\ quran_page_number' = counter_after(sent, quran_page_number)
        /\ c_saved' = IF sent /\ save_ok THEN quran_page_number' ELSE c_saved
        /\ c_last' = [sent |-> sent, before |-> quran_page_number, saved_before |-> c_saved,
                      pages |-> <<quran_page_number, quran_page_number + 1>>]
        /\ UNCHANGED <<botVars, pagesVars, gatewayVars, legacyVars, sendVars, loopVars,
                       n_pc, userVars>>

CounterNext == CounterSendQuranPages

SpecCounter == CounterInit /\ [][CounterNext]_vars

----------------------------------------------------------------------------
(* SpecLegacyMain: fazkerbot_n.main step by step.  n_pc is the statement the
   main coroutine is at.  main awaits reschedule_daily_tasks (line 236), whose
   body is a 'while True' without break or return (lines 197-218), so the
   statements of main behind the await, scheduler.start() (line 239) among
   them, have no step here: no run of the coroutine comes to them. *)

LegacyMainInit == BotInit /\ PagesIdle /\ GatewayIdle /\ SideIdle

\* get_next_occurrence(time_str, base_time), the time a minute of the day
\* (datetime.strptime(time_str, '%H:%M') as minutes)
get_next_occurrence(time_min, base_time) ==
    IF DTLeq(DT(base_time.date, time_min), base_time)
    THEN DT(base_time.date + 1, time_min)
    ELSE DT(base_time.date, time_min)

\* schedule_prayer_times: <<fajr_time, asr_time, quran_send_time>> from the
\* timings of get_prayer_times, or from the default times when the fetch
\* gave None or a time string does not parse
schedule_prayer_times(timings, now_) ==
    LET fajr == get_prayer_time("Fajr", now_.date, timings)
        asr == get_prayer_time("Asr", now_.date, timings)
    IN  IF fajr.ok /\ asr.ok
        THEN LET fajr_time == AddMinutes(get_next_occurrence(fajr.min, now_), 30)
                 asr_time == AddMinutes(get_next_occurrence(asr.min, now_), 30)
             IN  <<fajr_time, asr_time, AddMinutes(asr_time, 15)>>
        ELSE <<get_next_occurrence(5 * 60, now_), get_next_occurrence(15 * 60, now_),
               get_next_occurrence(16 * 60, now_)>>

\* a job added without an id; the kind and the run date stand for the id the
\* scheduler generates
LegacyJob(kind, func, run_date, args) ==
    [id |-> <<kind, run_date.date>>, func |-> func, run_date |-> run_date, args |-> args]

\* the jobs one round of reschedule_daily_tasks leaves in the store
LegacyJobs(times, now_) ==
    (IF ~DTLeq(times[1], now_)
     THEN {LegacyJob("morning", "send_athkar", times[1], <<"morning">>)} ELSE {})
    \cup
    (IF ~DTLeq(times[2], now_)
     THEN {LegacyJob("night", "send_athkar", times[2], <<"night">>)} ELSE {})
    \cup
    (IF ~DTLeq(times[3], now_)
     THEN {LegacyJob("quran", "send_quran_pages", times[3], <<>>)} ELSE {})

\* main: scheduler = AsyncIOScheduler(...); await reschedule_daily_tasks(scheduler)
LegacyMainStart ==
    /\ n_pc = "idle"
    /\ n_pc' = "reschedule:plan"
    /\ UNCHANGED <<botVars, pagesVars, gatewayVars, legacyVars, sendVars, loopVars,
                   counterVars, userVars>>

\* one round of the loop of reschedule_daily_tasks up to its sleep:
\* remove_all_jobs, then the jobs whose time is ahead
LegacyReschedule ==
    /\ n_pc = "reschedule:plan"
    /\ \E timings \in {GoodTimings, NoTimings} :
          jobs' = LegacyJobs(schedule_prayer_times(timings, now), now)
    /\ last_scheduled_date' = now.date
    /\ n_pc' = "reschedule:sleep"
    /\ UNCHANGED <<now, started, DAILY_TASKS, posts, deletes, next_message_id, pass, runs,
                   last_run, pagesVars, gatewayVars, legacyVars, sendVars, loopVars,
                   counterVars, userVars>>

\* the sleep until the next midnight is over: the loop starts its next round
LegacyWake ==
    /\ n_pc = "reschedule:sleep"
    /\ now.date > last_scheduled_date
    /\ n_pc' = "reschedule:plan"
    /\ UNCHANGED <<botVars, pagesVars, gatewayVars, legacyVars, sendVars, loopVars,
                   counterVars, userVars>>

\* the clock moves to its next instant while the coroutine sleeps
LegacyTick ==
    /\ n_pc = "reschedule:sleep"
    /\ now.date = last_scheduled_date
    /\ \/ /\ \E i \in 1..(Len(ClockPoints) - 1) :
                /\ now.min = ClockPoints[i]
                /\ now' = DT(now.date, ClockPoints[i + 1])
       \/ /\ now.min = ClockPoints[Len(ClockPoints)]
          /\ now.date < StartDate + MaxDays
          /\ now' = DT(now.date + 1, ClockPoints[1])
    /\ UNCHANGED <<started, last_scheduled_date, DAILY_TASKS, jobs, posts, deletes,
                   next_message_id, pass, runs, last_run, pagesVars, gatewayVars, sideVars>>

LegacyMainNext ==
    \/ LegacyMainStart
    \/ LegacyReschedule
    \/ LegacyWake
    \/ LegacyTick

SpecLegacyMain == LegacyMainInit /\ [][LegacyMainNext]_vars

----------------------------------------------------------------------------
(* SpecUser: the updates of one user in a private chat, dispatched by the
   handlers init_application registers.  All handlers are in the default
   group; Application.process_update gives an update to the first handler of
   the group, in registration order, whose check accepts it, and to no other.
   A ConversationHandler accepts an update, when it keeps no state for the
   user, only through its entry points, and otherwise through the handlers of
   the kept state and then its fallbacks; the state a handler returns is kept
   only when the ConversationHandler ran it. *)

UserInit == BotIdle /\ PagesIdle /\ GatewayIdle /\ SideIdle

\* what the user can send: the commands, the buttons of the keyboards
\* (callback data) and a text message, acceptable or not to the handler that
\* receives it
Updates ==
    { [kind |-> "command", data |-> "start", valid |-> TRUE],
      [kind |-> "command", data |-> "cancel", valid |-> TRUE],
      [kind |-> "callback", data |-> "lang_", valid |-> TRUE],
      [kind |-> "callback", data |-> "config_athkar", valid |-> TRUE],
      [kind |-> "callback", data |-> "config_quran", valid |-> TRUE],
      [kind |-> "callback", data |-> "config_sleep", valid |-> TRUE],
      [kind |-> "callback", data |-> "config_city", valid |-> TRUE],
      [kind |-> "callback", data |-> "freq_", valid |-> TRUE],
      [kind |-> "callback", data |-> "quran_", valid |-> TRUE],
      [kind |-> "text", data |-> "", valid |-> TRUE],
      [kind |-> "text", data |-> "", valid |-> FALSE] }

NoHandler == "none"

\* the states dictionary of get_conversation_handler: the handler of the
\* kept state that accepts the update
StateHandler(state, update) ==
    IF state = "ATHKAR" /\ update.kind = "text" THEN "athkar_receive"
    ELSE IF state = "ATHKAR_FREQ" /\ update.kind = "callback" /\ update.data = "freq_"
    THEN "athkar_freq_choice"
    ELSE IF state = "ATHKAR_FREQ" /\ update.kind = "text" THEN "athkar_freq_receive"
    ELSE IF state = "QURAN_CHOICE" /\ update.kind = "callback" /\ update.data = "quran_"
    THEN "quran_config_choice"
    ELSE IF state = "QURAN_DETAILS" /\ update.kind = "text" THEN "quran_config_receive"
    ELSE IF state = "SLEEP_TIME" /\ update.kind = "text" THEN "sleep_config_receive"
    ELSE IF state = "CITY_INFO" /\ update.kind = "text" THEN "city_config_receive"
    ELSE NoHandler

\* the ConversationHandler's check of an update
ConversationCheck(state, update) ==
    IF state = END
    THEN IF update.kind = "command" /\ update.data = "start" THEN "start" ELSE NoHandler
    ELSE IF StateHandler(state, update) # NoHandler THEN StateHandler(state, update)
    ELSE IF update.kind = "command" /\ update.data = "cancel" THEN "cancel"
    ELSE NoHandler

\* the CallbackQueryHandlers added after the ConversationHandler
CallbackCheck(update) ==
    IF update.kind # "callback" THEN NoHandler
    ELSE IF update.data = "lang_" THEN "language_choice"
    ELSE IF update.data = "config_athkar" THEN "athkar_config_entry"
    ELSE IF update.data = "config_quran" THEN "quran_config_entry"
    ELSE IF update.data = "config_sleep" THEN "sleep_config_entry"
    ELSE IF update.data = "config_city" THEN "city_config_entry"
    ELSE NoHandler

\* init_application's handlers in the order they are added: the handler that
\* gets the update, and whether the ConversationHandler runs it
Dispatch(state, update) ==
    IF update.kind = "command" /\ update.data = "start"
    THEN [handler |-> "start", in_conversation |-> FALSE]
    ELSE IF ConversationCheck(state, update) # NoHandler
    THEN [handler |-> ConversationCheck(state, update), in_conversation |-> TRUE]
    ELSE [handler |-> CallbackCheck(update), in_conversation |-> FALSE]

\* the state a handler returns; the receive handlers return their own state
\* again on an input they reject
Returned(handler, state, update) ==
    IF handler = "start" THEN "LANGUAGE"
    ELSE IF handler = "language_choice" THEN END
    ELSE IF handler = "athkar_config_entry" THEN "ATHKAR"
    ELSE IF handler = "athkar_receive" THEN "ATHKAR_FREQ"
    ELSE IF handler = "athkar_freq_choice" THEN "ATHKAR_FREQ"
    ELSE IF handler = "athkar_freq_receive"
    THEN (IF update.valid THEN END ELSE "ATHKAR_FREQ")
    ELSE IF handler = "quran_config_entry" THEN "QURAN_CHOICE"
    ELSE IF handler = "quran_config_choice" THEN "QURAN_DETAILS"
    ELSE IF handler = "quran_config_receive" THEN END
    ELSE IF handler = "sleep_config_entry" THEN "SLEEP_TIME"
    ELSE IF handler = "sleep_config_receive"
    THEN (IF update.valid THEN END ELSE "SLEEP_TIME")
    ELSE IF handler = "city_config_entry" THEN "CITY_INFO"
    ELSE IF handler = "city_config_receive"
    THEN (IF update.valid THEN END ELSE "CITY_INFO")
    ELSE state

\* webhook_handler: application.process_update(update)
ProcessUpdate ==
    /\ Len(u_log) < MaxUpdates
    /\ \E update \in Updates :
          LET d == Dispatch(u_conversation, update)
              returned == Returned(d.handler, u_conversation, update)
          IN  /\ u_conversation' = IF d.in_conversation THEN returned ELSE u_conversation
              /\ u_log' = Append(u_log, [update |-> update, handler |-> d.handler,
                                         returned |-> returned,
                                         conversation |-> u_conversation'])
    /\ UNCHANGED <<botVars, pagesVars, gatewayVars, legacyVars, sendVars, loopVars,
                   counterVars, n_pc>>

UserNext == ProcessUpdate

SpecUser == UserInit /\ [][UserNext]_vars

----------------------------------------------------------------------------
(* Claims about the planning pass and the content actions, checked under Spec *)

\* today's schedule as the last planning pass parsed it
PassFajrToday == get_prayer_time("Fajr", pass.now.date, pass.prayer_times_today)

PassAsrToday == get_prayer_time("Asr", pass.now.date, pass.prayer_times_today)

\* the last pass ran at evening_fire <= now < document_fire of today's schedule
\* and went through to the registration
PassInEveningWindow ==
    /\ pass.done
    /\ pass.registers
    /\ PassFajrToday.ok /\ PassAsrToday.ok
    /\ DTLeq(evening_athkar_time(PassAsrToday), pass.now)
    /\ ~DTLeq(quran_time(PassAsrToday), pass.now)

TaskIndices == 1..Len(DAILY_TASKS)

\* C1: a pass whose now satisfies evening_fire <= now < document_fire on
\* today's schedule plans the evening reminder on tomorrow's schedule and keeps
\* the document-pages task on today's schedule.
C1_ElapsedTimeRollover ==
    PassInEveningWindow =>
        /\ \E i \in TaskIndices :
              /\ DAILY_TASKS[i].type = "evening_athkar"
              /\ DAILY_TASKS[i].time.date = pass.now.date + 1
        /\ \E i \in TaskIndices :
              /\ DAILY_TASKS[i].type = "quran"
              /\ DAILY_TASKS[i].time = quran_time(PassAsrToday)

\* C2: every document-pages post carries the page pair of the date it is
\* posted on, every pending document-pages job is bound to the date of its run
\* time, and the label of every planned document-pages task shows the pair of
\* the date of its fire time.
C2_PagesMatchDeliveryDate ==
    /\ \A i \in 1..Len(posts) :
          posts[i].kind = "quran" =>
              posts[i].pages = get_next_quran_pages_for_date(posts[i].date)
    /\ \A job \in jobs :
          job.func = "send_quran_pages" => job.args = <<job.run_date.date>>
    /\ \A i \in TaskIndices :
          DAILY_TASKS[i].type = "quran" =>
              DAILY_TASKS[i].description.pages =
                  get_next_quran_pages_for_date(DAILY_TASKS[i].time.date)

\* a document-pages post on the second day by a job planned the day before
\* (the second day's own pass registered nothing)
C2_Witness ==
    /\ pass.done /\ ~pass.registers /\ pass.now.date = StartDate + 1
    /\ \E i \in 1..Len(posts) :
          /\ posts[i].kind = "quran"
          /\ posts[i].date = StartDate + 1
          /\ posts[i].pages = <<total_pages, 1>>

AthkarPosts == SelectSeq(posts, LAMBDA p : p.kind \in {"morning", "night"})

\* C3: the first reminder post of all issues no delete call; a morning post
\* followed by an evening post issues exactly one delete call, for the id the
\* morning post returned.
C3_ReplaceLifecycle ==
    /\ Len(AthkarPosts) = 1 => deletes = <<>>
    /\ (/\ Len(AthkarPosts) = 2
        /\ AthkarPosts[1].kind = "morning"
        /\ AthkarPosts[2].kind = "night") => deletes = <<AthkarPosts[1].id>>

\* the last pass met two failing providers at every fetch it made
PassAllFallback ==
    /\ pass.done
    /\ pass.today_fallback
    /\ pass.need_tomorrow_times => pass.tomorrow_fallback

\* C4: when both providers fail at every fetch of a pass, the pass works on
\* the static table and plans a non-empty task list whose fire times are those
\* of the static table: 05:05, 17:00 and 17:10, today or tomorrow.
C4_FallbackActivation ==
    PassAllFallback =>
        /\ pass.prayer_times_today = FALLBACK_PRAYER_TIMES
        /\ pass.registers
        /\ DAILY_TASKS # <<>>
        /\ \A i \in TaskIndices :
              /\ DAILY_TASKS[i].time.date \in {pass.now.date, pass.now.date + 1}
              /\ DAILY_TASKS[i].type = "morning_athkar" => DAILY_TASKS[i].time.min = 5 * 60 + 5
              /\ DAILY_TASKS[i].type = "evening_athkar" => DAILY_TASKS[i].time.min = 17 * 60
              /\ DAILY_TASKS[i].type = "quran" => DAILY_TASKS[i].time.min = 17 * 60 + 10

\* a pass that fell back to the static table for today and for tomorrow
C4_Witness ==
    /\ PassAllFallback
    /\ pass.need_tomorrow_times
    /\ Len(DAILY_TASKS) = 3

----------------------------------------------------------------------------
(* Claims about the page function, checked under SpecPages *)

PagesCalled == q_pages # <<>>

BothCalled == q_pages # <<>> /\ q_next # <<>>

\* C5: for every date, before, at or after the anchor, both page numbers
\* returned by the page function lie in 1..604.
C5_PagesInRange ==
    /\ PagesCalled => (q_pages[1] \in 1..total_pages /\ q_pages[2] \in 1..total_pages)
    /\ q_next # <<>> => (q_next[1] \in 1..total_pages /\ q_next[2] \in 1..total_pages)

\* a date past one full cycle, whose raw page numbers exceed 604
C5_Witness == PagesCalled /\ q_date > anchor_date + 301 /\ q_pages[1] = 2

\* C6: the low page of the following date is the low page plus 2, or plus
\* 2 - 604 exactly when the low page plus 2 passes the last page (the wrap).
C6_MonotonicAdvance ==
    BothCalled =>
        /\ q_next[1] - q_pages[1] \in {2, 2 - total_pages}
        /\ (q_next[1] - q_pages[1] = 2 - total_pages) <=> (q_pages[1] + 2 > total_pages)

\* the wrap after a full cycle: 604 on the date, 2 on the next
C6_Witness == BothCalled /\ q_date > anchor_date /\ q_pages[1] = total_pages /\ q_next[1] = 2

\* C7: the pair of every date is (p, p+1) with 1 <= p <= 603, or the wrap
\* pair (604, 1).
C7_PairShape ==
    PagesCalled =>
        \/ q_pages[1] \in 1..(total_pages - 1) /\ q_pages[2] = q_pages[1] + 1
        \/ q_pages = <<total_pages, 1>>

\* the wrap pair on a date before the anchor
C7_Witness == PagesCalled /\ q_date < anchor_date /\ q_pages = <<total_pages, 1>>

\* C9: the page function returns (6, 7) for 2025-05-29.
C9_Scenario_2025_05_29 ==
    (PagesCalled /\ q_date = MkDate(2025, 5, 29)) => q_pages = <<6, 7>>

C11_AnchorPair ==
    (PagesCalled /\ q_date = anchor_date) => q_pages = <<2, 3>>

C11_Witness == PagesCalled /\ q_date = anchor_date /\ q_date = MkDate(2025, 5, 26)

----------------------------------------------------------------------------
(* Claims about the planner and the job register, checked under Spec *)

PassFajrTomorrow == get_prayer_time("Fajr", pass.now.date + 1, pass.prayer_times_tomorrow)

PassAsrTomorrow == get_prayer_time("Asr", pass.now.date + 1, pass.prayer_times_tomorrow)

\* Fajr and Asr of the schedule of the given day, as the last pass parsed them
PassFajrOf(day) == IF day = pass.now.date THEN PassFajrToday ELSE PassFajrTomorrow

PassAsrOf(day) == IF day = pass.now.date THEN PassAsrToday ELSE PassAsrTomorrow

\* C12: every task of a planning pass lies on today's or tomorrow's schedule,
\* and its fire time is Fajr + 35 min (morning), Asr + 30 min (evening) or
\* Asr + 40 min (document pages) of the timings fetched for the day it lies on.
C12_FireTimeOffsets ==
    pass.done =>
        \A i \in TaskIndices :
            LET task == DAILY_TASKS[i]
                day == task.time.date
                fajr == PassFajrOf(day)
                asr == PassAsrOf(day)
            IN  /\ day \in {pass.now.date, pass.now.date + 1}
                /\ fajr.ok /\ asr.ok
                /\ task.type = "morning_athkar" => task.time = [date |-> day, min |-> fajr.min + 35]
                /\ task.type = "evening_athkar" => task.time = [date |-> day, min |-> asr.min + 30]
                /\ task.type = "quran" => task.time = [date |-> day, min |-> asr.min + 30 + 10]

\* a pass with tasks on both days, planned from two different timings
C12_Witness ==
    /\ pass.done /\ pass.registers
    /\ pass.prayer_times_today # pass.prayer_times_tomorrow
    /\ \E i \in TaskIndices :
          DAILY_TASKS[i].type = "quran" /\ DAILY_TASKS[i].time.date = pass.now.date
    /\ \E i \in TaskIndices :
          DAILY_TASKS[i].type = "morning_athkar" /\ DAILY_TASKS[i].time.date = pass.now.date + 1

\* the fire time of a kind of task on today's schedule of the last pass
OwnFireTimeToday(kind) ==
    IF kind = "morning_athkar" THEN [date |-> pass.now.date, min |-> PassFajrToday.min + 35]
    ELSE IF kind = "evening_athkar" THEN [date |-> pass.now.date, min |-> PassAsrToday.min + 30]
    ELSE [date |-> pass.now.date, min |-> PassAsrToday.min + 40]

\* C13: in a pass that went through, each kind of task is planned on
\* tomorrow's schedule if and only if its own fire time on today's schedule
\* is <= now, whatever its siblings do.
C13_IndependentPlacement ==
    (pass.done /\ pass.registers) =>
        \A kind \in {"morning_athkar", "evening_athkar", "quran"} :
            (\E i \in TaskIndices :
                /\ DAILY_TASKS[i].type = kind
                /\ DAILY_TASKS[i].time.date = pass.now.date + 1)
            <=> DTLeq(OwnFireTimeToday(kind), pass.now)

\* C14: DAILY_TASKS is ordered by fire time: each entry's time is <= the
\* next entry's time.
C14_TasksOrdered ==
    \A i \in 1..(Len(DAILY_TASKS) - 1) :
        DTLeq(DAILY_TASKS[i].time, DAILY_TASKS[i + 1].time)

\* a pass that produced a mix: today's evening tasks, then tomorrow's morning
C14_Witness ==
    /\ pass.done /\ pass.registers
    /\ Len(DAILY_TASKS) = 3
    /\ DAILY_TASKS[1].time.date = pass.now.date
    /\ DAILY_TASKS[3].time.date = pass.now.date + 1

\* the kind of reminder or post a job delivers
JobKind(job) == IF job.func = "send_athkar" THEN job.args[1] ELSE "quran"

\* C15: at every moment there is at most one pending job per (kind, date of
\* the fire time).
C15_OneJobPerKey ==
    \A j1 \in jobs, j2 \in jobs :
        (JobKind(j1) = JobKind(j2) /\ j1.run_date.date = j2.run_date.date) => j1 = j2

\* a pass re-registered a key that was pending, and the job is still pending
C15_Witness ==
    /\ pass.done /\ pass.registers
    /\ \E job \in jobs : job.id \in pass.replaced

\* C16: after a registration pass the pending jobs are jobs of the tasks of
\* that pass: no job of an earlier pass remains pending.
C16_PassClearsPendingJobs ==
    (pass.done /\ pass.registers) =>
        \A job \in jobs : \E i \in TaskIndices : JobOf(DAILY_TASKS[i]) = job

\* C17: a job the scheduler processes is executed if it is at most 300
\* seconds late and dropped if it is later than that, and no job is processed
\* twice.
C17_MisfireTolerance ==
    /\ last_run # NoRun =>
          /\ last_run.late >= 0
          /\ last_run.executed <=> last_run.late <= 300
    /\ \A i \in 1..Len(runs), k \in 1..Len(runs) :
          runs[i].id = runs[k].id => i = k

\* a job executed 300 seconds late
C17_Witness == last_run.executed /\ last_run.late = 300

----------------------------------------------------------------------------
(* Claims about the time-source gateway, checked under SpecGateway *)

\* the source the returned timings come from
ReturningSource == g_queried[Len(g_queried)]

\* C18: the timings the gateway returns never come from a provider response
\* whose date is missing, unparseable or more than one day off the requested
\* date.
C18_DateValidationRejects ==
    g_pc = "done" => ReturningSource \notin g_warned

\* C19: the timings the gateway returns have a Fajr and an Asr value that
\* parse as HH:MM.
C19_WellFormedTimings ==
    g_pc = "done" =>
        /\ get_prayer_time("Fajr", g_target_date, g_timings).ok
        /\ get_prayer_time("Asr", g_target_date, g_timings).ok

\* a provider's answer that gives no usable timings: a status other than 200,
\* or no Fajr or no Asr among the timings
SourceFailed(response) ==
    response.status # 200 \/ ~({"Fajr", "Asr"} \subseteq DOMAIN response.timings)

\* C20: the sources are consulted in the order city, coordinates, fallback
\* table; the coordinates provider only after the city provider failed, the
\* table only after both failed; the call returns the timings of the last
\* source consulted, and nothing is returned before.
C20_SourceOrdering ==
    /\ \E n \in 0..3 : g_queried = SubSeq(<<"city", "coords", "fallback">>, 1, n)
    /\ Len(g_queried) >= 2 => SourceFailed(g_city)
    /\ Len(g_queried) >= 3 => SourceFailed(g_coords)
    /\ g_pc = "done" =>
          /\ Len(g_queried) = 1 => (~SourceFailed(g_city) /\ g_timings = g_city.timings)
          /\ Len(g_queried) = 2 => (~SourceFailed(g_coords) /\ g_timings = g_coords.timings)
          /\ Len(g_queried) = 3 => g_timings = FALLBACK_PRAYER_TIMES
          /\ Len(g_queried) >= 1
    /\ g_pc # "done" => g_timings = NoTimings

\* the coordinates provider answered after the city provider had failed
C20_Witness ==
    /\ g_pc = "done"
    /\ g_queried = <<"city", "coords">>
    /\ g_city.status # 200
    /\ g_timings = GoodTimings

----------------------------------------------------------------------------
(* Claims about the reminder posts in the channel, checked under Spec *)

\* the ids passed to bot.delete_message
DeletedIds == {deletes[i] : i \in 1..Len(deletes)}

\* the reminder messages of a kind that were posted and not deleted
Outstanding(kind) ==
    {i \in 1..Len(posts) : posts[i].kind = kind /\ posts[i].id \notin DeletedIds}

\* C21: at most one posted and not deleted message per reminder kind is in
\* the channel.
C21_OneOutstandingPerKind ==
    \A kind \in {"morning", "night"} : Cardinality(Outstanding(kind)) <= 1

----------------------------------------------------------------------------
(* Claims about the reminder record of the legacy bot, checked under SpecLegacy *)

\* the kind the last call did not post
OtherKind == IF last_athkar.time_of_day = "morning" THEN "night" ELSE "morning"

\* C22: after a successful reminder post the record of its kind holds the new
\* message id and the record of the other kind is cleared, whatever the
\* deletion of the old message met.
C22_RecordAfterPost ==
    last_athkar.posted =>
        /\ message_ids[last_athkar.time_of_day] = last_athkar.new_id
        /\ message_ids[OtherKind] = 0

\* C23: when the deletion of the old message reports not-found, the record of
\* the other kind is cleared and the record of the posted kind holds the new
\* message id, and the new message is in the channel.
C23_NotFoundIsNoError ==
    (last_athkar.posted /\ last_athkar.delete = "not_found") =>
        /\ message_ids[last_athkar.time_of_day] = last_athkar.new_id
        /\ message_ids[OtherKind] = 0
        /\ posts[Len(posts)].id = last_athkar.new_id

\* a reminder was posted and the previous one was already gone
C23_Witness ==
    /\ last_athkar.posted
    /\ last_athkar.delete = "not_found"
    /\ last_athkar.old_id # 0

\* C24: no message id is passed to bot.delete_message twice.
C24_DeleteAtMostOnce ==
    \A i \in 1..Len(deletes), k \in 1..Len(deletes) :
        deletes[i] = deletes[k] => i = k

----------------------------------------------------------------------------
(* Claims about one invocation of a content action, checked under SpecSend *)

\* the messages the current or last invocation added to the channel
PostsAdded == Len(posts) - s_call.posts_before

\* C25: one invocation of send_athkar makes at most two post attempts, the
\* second only after the first raised; after two failures it has ended with
\* nothing posted; without a valid image it makes no attempt; it posts at most
\* one message.
C25_OneRetry ==
    s_call.func = "send_athkar" =>
        /\ Len(s_call.attempts) <= 2
        /\ Len(s_call.attempts) = 2 => s_call.attempts[1] = "raised"
        /\ s_call.attempts = <<"raised", "raised">> => (s_pc = "idle" /\ PostsAdded = 0)
        /\ "image" \notin s_call.validated => s_call.attempts = <<>>
        /\ PostsAdded = Cardinality({i \in 1..Len(s_call.attempts) : s_call.attempts[i] = "sent"})
        /\ PostsAdded <= 1

\* both attempts of one invocation raised
C25_Witness ==
    /\ s_call.func = "send_athkar"
    /\ s_call.attempts = <<"raised", "raised">>
    /\ s_pc = "idle"

\* C26: one invocation of send_quran_pages attempts the grouped post only
\* after both pages were validated; it adds one post of two pages or nothing,
\* and nothing when a validation or the grouped post failed.
C26_NoPartialPost ==
    s_call.func = "send_quran_pages" =>
        /\ PostsAdded \in {0, 1}
        /\ s_call.attempts # <<>> => s_call.validated = {"page1", "page2"}
        /\ PostsAdded = 1 =>
              /\ s_call.attempts = <<"sent">>
              /\ posts[Len(posts)].kind = "quran"
              /\ Len(posts[Len(posts)].pages) = 2
        /\ (s_call.validated # {"page1", "page2"} \/ s_call.attempts # <<"sent">>) =>
              PostsAdded = 0

\* the second page failed its validation and the invocation ended
C26_Witness ==
    /\ s_call.func = "send_quran_pages"
    /\ s_call.validated = {"page1"}
    /\ s_pc = "idle"
    /\ PostsAdded = 0

----------------------------------------------------------------------------
(* Claims about failures in a planning pass and about the day rollover,
   checked under Spec *)

\* whether the time string a kind of task needs on today's schedule parsed
OwnTimeTodayOk(kind) ==
    IF kind = "morning_athkar" THEN PassFajrToday.ok ELSE PassAsrToday.ok

\* C27: in a pass that met a malformed time string on today's schedule, each
\* reminder whose own time string is valid and whose own fire time is still
\* ahead is planned on today's schedule, and the pass registers its jobs.
C27_ErrorIsolation ==
    (pass.done /\ pass.prayer_times_today # NoTimings
        /\ (~PassFajrToday.ok \/ ~PassAsrToday.ok)) =>
        \A kind \in {"morning_athkar", "evening_athkar"} :
            (OwnTimeTodayOk(kind) /\ ~DTLeq(OwnFireTimeToday(kind), pass.now)) =>
                /\ pass.registers
                /\ \E i \in TaskIndices :
                      /\ DAILY_TASKS[i].type = kind
                      /\ DAILY_TASKS[i].time = OwnFireTimeToday(kind)

\* C30: the rollover loop runs a planning pass only for a date that the pass
\* before it did not plan.
C30_OnePassPerDate ==
    [][(pass.done /\ started /\ last_scheduled_date' # last_scheduled_date)
          => pass.now.date # now.date]_vars

----------------------------------------------------------------------------
(* Claims about the main coroutine, checked under SpecLoop *)

\* C28: no exception raised in schedule_tasks or in an iteration of the
\* rollover loop goes uncaught: the main coroutine never ends, an exception in
\* schedule_tasks is caught by schedule_tasks, and after an exception in an
\* iteration the loop is at its sleep or further on.
C28_NoExceptionStopsTheLoop ==
    /\ l_pc # "crashed"
    /\ "uncaught" \notin l_exception
    /\ (started /\ l_pc \notin {"main:744", "combined_main:59"}) =>
          l_pc \in {"main:749", "combined_main:74", "loop:now", "loop:schedule_tasks",
                    "loop:log_status", "loop:sleep", "loop:except_sleep"}
    /\ "main_loop" \in l_exception =>
          l_pc \in {"loop:now", "loop:schedule_tasks", "loop:log_status", "loop:sleep",
                    "loop:except_sleep"}

\* the startup pass raised and an iteration raised, and the loop polls again
C28_Witness ==
    /\ l_exception = {"schedule_tasks", "main_loop"}
    /\ l_pc = "loop:now"
    /\ last_scheduled_date = 0
    /\ l_current_date = 0

\* C29: at every moment at most one invocation of schedule_tasks is in
\* progress, and it is the one the main coroutine awaits.
C29_OnePassAtATime ==
    /\ l_running <= 1
    /\ l_running = 1 <=> l_pc \in AwaitsPass

\* the rollover loop awaits a pass for a new date while jobs have run
C29_Witness ==
    /\ l_running = 1
    /\ l_pc = "loop:schedule_tasks"
    /\ l_current_date = StartDate + 1
    /\ last_scheduled_date = StartDate
    /\ Len(posts) > 0

----------------------------------------------------------------------------
(* Claims about the plan a pass leaves behind, checked under Spec *)

\* the ids of the jobs the scheduler has run or dropped
RunIds == {runs[i].id : i \in 1..Len(runs)}

\* C31: every task listed in DAILY_TASKS has its job (same kind, same fire
\* time) in the job register, until the scheduler has run or dropped it.
C31_TasksHaveJobs ==
    pass.done =>
        \A i \in TaskIndices :
            JobOf(DAILY_TASKS[i]) \in jobs \/ JobOf(DAILY_TASKS[i]).id \in RunIds

\* every time string the last pass needed parsed
PassTimesParse ==
    /\ pass.done
    /\ PassFajrToday.ok /\ PassAsrToday.ok
    /\ pass.need_tomorrow_times => (PassFajrTomorrow.ok /\ PassAsrTomorrow.ok)

\* the tasks of DAILY_TASKS of one kind
TasksOfKind(kind) == {i \in TaskIndices : DAILY_TASKS[i].type = kind}

\* C32: after a pass in which the needed prayer times parse, DAILY_TASKS
\* holds exactly three tasks, one of each kind, each with a fire time
\* strictly later than the now of the pass.
C32_ThreeFutureTasks ==
    PassTimesParse =>
        /\ Len(DAILY_TASKS) = 3
        /\ \A kind \in {"morning_athkar", "evening_athkar", "quran"} :
              Cardinality(TasksOfKind(kind)) = 1
        /\ \A i \in TaskIndices : ~DTLeq(DAILY_TASKS[i].time, pass.now)

\* a pass after the morning fire time: two tasks today, the morning tomorrow
C32_Witness ==
    /\ PassTimesParse
    /\ pass.need_tomorrow_times
    /\ \E i \in TasksOfKind("morning_athkar") : DAILY_TASKS[i].time.date = pass.now.date + 1
    /\ \E i \in TasksOfKind("evening_athkar") : DAILY_TASKS[i].time.date = pass.now.date

\* the branch 'elif quran_time <= now' is taken by a pass at this instant
\* with this Asr
QuranOnlyBranch(now_, asr) ==
    /\ ~DTLeq(evening_athkar_time(asr), now_)
    /\ DTLeq(quran_time(asr), now_)

C34_FetchNeverEmpty ==
    pass.done =>
        /\ {"Fajr", "Asr"} \subseteq DOMAIN pass.prayer_times_today
        /\ pass.need_tomorrow_times =>
              {"Fajr", "Asr"} \subseteq DOMAIN pass.prayer_times_tomorrow

\* a pass for which both providers failed on both days
C34_Witness ==
    /\ pass.done
    /\ pass.need_tomorrow_times
    /\ pass.today_fallback /\ pass.tomorrow_fallback
    /\ pass.prayer_times_today = FALLBACK_PRAYER_TIMES
    /\ pass.prayer_times_tomorrow = FALLBACK_PRAYER_TIMES

----------------------------------------------------------------------------
(* Claims about the page rotation as a cycle, checked under SpecPages *)

\* C35: the low page of every date is even and the high page is odd, every
\* pair is (2k, 2k + 1) for k in 1..301 or (604, 1), and the date 302 days
\* later gets the same pair.
C35_PeriodAndParity ==
    /\ PagesCalled =>
          /\ q_pages[1] % 2 = 0
          /\ q_pages[2] % 2 = 1
          /\ \/ \E k \in 1..((total_pages \div 2) - 1) : q_pages = <<2 * k, 2 * k + 1>>
             \/ q_pages = <<total_pages, 1>>
    /\ q_period # <<>> => q_period = q_pages

\* the day before the anchor and the last day of the cycle that starts at the
\* anchor: both get the wrap pair
C35_Witness ==
    /\ q_period # <<>>
    /\ q_date = anchor_date - 1
    /\ q_date + (total_pages \div 2) > anchor_date + 300
    /\ q_period = <<total_pages, 1>>

\* C36: get_next_quran_pages() on a date returns the pair
\* get_next_quran_pages_for_date returns for that date.
C36_CopiesAgree == q_today # <<>> => q_today = q_pages

\* both copies on a date before the anchor, at the wrap pair
C36_Witness == q_today # <<>> /\ q_date = anchor_date - 1 /\ q_today = <<total_pages, 1>>

----------------------------------------------------------------------------
(* Claims about the counter-based document action, checked under SpecCounter *)

\* C37: the counter, the saved counter and every page number of a post lie
\* in 1..604.
C37_CounterPagesInRange ==
    /\ quran_page_number \in 1..total_pages
    /\ c_saved \in 1..total_pages
    /\ c_last.sent => (c_last.pages[1] \in 1..total_pages /\ c_last.pages[2] \in 1..total_pages)

\* C38: after a successful post the counter is the old counter plus 2, or 1
\* past 604, and the file holds it or what it held before; after a failed
\* post the counter and the file are what they were.
C38_AdvanceOnlyAfterPost ==
    c_last.before # 0 =>
        IF c_last.sent
        THEN /\ quran_page_number =
                   (IF c_last.before + 2 > total_pages THEN 1 ELSE c_last.before + 2)
             /\ c_saved \in {quran_page_number, c_last.saved_before}
        ELSE /\ quran_page_number = c_last.before
             /\ c_saved = c_last.saved_before

\* a failed post of the last pair of the odd walk, after successful posts
C38_Witness ==
    /\ c_last.before = 603
    /\ ~c_last.sent
    /\ quran_page_number = 603
    /\ c_saved = 603
    /\ c_last.saved_before = 603

----------------------------------------------------------------------------
(* Claim about the start of the legacy bot, checked under SpecLegacyMain *)

\* C39: when the run date of a job registered by reschedule_daily_tasks has
\* come, the scheduler has been started, so that the job fires.
C39_SchedulerStartedAtRunDate ==
    \A job \in jobs : DTLeq(job.run_date, now) => started

----------------------------------------------------------------------------
(* Claim about the user configuration flow, checked under SpecUser *)

\* the receive handler of each configuration choice
ReceiveHandlerOf(choice) ==
    IF choice = "config_athkar" THEN "athkar_receive"
    ELSE IF choice = "config_quran" THEN "quran_config_receive"
    ELSE IF choice = "config_sleep" THEN "sleep_config_receive"
    ELSE "city_config_receive"

ConfigChoices == {"config_athkar", "config_quran", "config_sleep", "config_city"}

\* C40: after /start and a configuration choice, the conversation is in the
\* state the entry handler returned, and a text message that comes next is
\* given to the receive handler of that choice.
C40_TextReachesReceiveHandler ==
    \A i \in 2..Len(u_log) :
        (/\ \E j \in 1..(i - 1) : u_log[j].handler = "start"
         /\ u_log[i - 1].update.data \in ConfigChoices) =>
            /\ u_log[i - 1].conversation = u_log[i - 1].returned
            /\ u_log[i].update.kind = "text" =>
                  u_log[i].handler = ReceiveHandlerOf(u_log[i - 1].update.data)

====
